---- MODULE Spec2Model ----
(***************************************************************************)
(* Verification model of the ADK network-support agent.                    *)
(*                                                                         *)
(* Several state machines share this module, one specification each:      *)
(*   SpecScope  detectAgentScope        (tools/identify-network-projects)  *)
(*   SpecScopeLive  the same, every await settling                         *)
(*   SpecCalls  detectAgentScope called repeatedly on fixed service data   *)
(*   SpecProbe  runConnectivityTest     (tools/connectivity-test)          *)
(*   SpecFlow   queryVpcFlowLogs        (tools/vpc-flow-logs)              *)
(*   SpecFirewall  manageFirewallRule   (tools/firewall-manager)           *)
(*   SpecQuery  the POST /query handler  (index.ts)                        *)
(*   Spec       runAgent and the agents (agent definitions)                *)
(* A JavaScript function runs without interruption between two awaits, so  *)
(* every action is the code from one await to the next.                    *)
(***************************************************************************)
EXTENDS Integers, Sequences, FiniteSets, TLC

VARIABLES
    \* ---- detectAgentScope ----
    startProjects,    \* the parsed rootProjects input
    scanIdx,          \* position of the for..of loop over startProjects
    scanPc,           \* the await the scan is suspended at
    visitedProjects,  \* Set<string>
    projectGraph,     \* the relationships list: edges and error entries
    usableCount,      \* subnets yielded by listUsableAsync for this project
    resources,        \* the first searchAllResources answer for this project
    \* ---- shared ----
    now,              \* Date.now(), in milliseconds
    \* ---- runConnectivityTest ----
    probes,           \* the invocations of runConnectivityTest
    tests,            \* connectivity tests that exist at the reachability service
    \* ---- runAgent ----
    variant,          \* which of the two agent definitions is the root agent
    runs,             \* the invocations of runAgent
    sessions,         \* the store of the InMemorySessionService
    convs,            \* what each user conversation has seen so far
    \* ---- detectAgentScope called again on the same data ----
    inventory,        \* what the services hold for each project
    callRoots,        \* the roots every call is made with
    callResults,      \* what each call returned, in call order
    \* ---- queryVpcFlowLogs ----
    flowParams,       \* the params of the invocation
    flowIdx,          \* position of the for..of loop over uniqueProjects
    flowPc,           \* "query" while a bigquery.query is awaited, then "returned"
    results,          \* the tagged rows collected so far
    errors,           \* the error entries collected so far
    outcomes,         \* history: whether each query issued so far succeeded
    queried,          \* history: the project of each query issued so far
    tables,           \* history: the matching rows each queried table held
    flowReturn,       \* the value the invocation returned
    \* ---- manageFirewallRule ----
    fwParams,         \* the params of the invocation
    fwPc,             \* the await the invocation is suspended at
    apiCalls,         \* the insert, patch and delete calls issued, in order
    operation,        \* what the mutation call resolved with
    observed,         \* history: operation.promise() resolved
    thrown,           \* history: the message of the error thrown, if any
    fwReturn,         \* the value the invocation returned
    \* ---- POST /query ----
    env,              \* process.env.GOOGLE_CLOUD_PROJECT
    requests          \* the requests received, each with its response

scopeVars == <<startProjects, scanIdx, scanPc, visitedProjects, projectGraph,
               usableCount, resources>>
probeVars == <<probes, tests>>
agentVars == <<variant, runs, sessions, convs>>
callVars == <<inventory, callRoots, callResults>>
flowVars == <<flowParams, flowIdx, flowPc, results, errors, outcomes, queried,
             tables, flowReturn>>

fwVars == <<fwParams, fwPc, apiCalls, operation, observed, thrown, fwReturn>>

httpVars == <<env, requests>>

vars == <<scopeVars, now, probeVars, agentVars, callVars, flowVars, fwVars,
          httpVars>>

(***************************************************************************)
(* Bounds of the model.                                                    *)
(***************************************************************************)
MaxRoots == 2       \* longest rootProjects list
MaxUsable == 1      \* most subnets one listUsable call yields
MaxClock == 2       \* last millisecond the clock reaches
MaxProbes == 2      \* invocations of runConnectivityTest
MaxSteps == 1       \* most steps in the trace of one connectivity test
MaxRuns == 2        \* invocations of runAgent
MaxConvs == 2       \* user conversations
MaxCalls == 2       \* calls of detectAgentScope on one inventory
MaxList == 3        \* longest projects argument of queryVpcFlowLogs
MaxRows == 2        \* most rows one flow-log query answers with
MaxRequests == 3    \* requests the /query endpoint receives

Null == "null"       \* an unset project name
NoUrl == <<>>        \* an unset (or non-string) URL attribute
DenyListed == "google-cloud-clients"
RootPool == {"pa", "pb"}
Projects == {"pa", "pb", "pc", DenyListed}

(***************************************************************************)
(* Strings that hold resource URLs are sequences of their "/"-separated    *)
(* segments: "projects/pb/global/networks/n" is                            *)
(* <<"projects","pb","global","networks","n">>.                            *)
(***************************************************************************)
NetUrl(p) == <<"projects", p, "global", "networks", "n">>
SubnetUrl(p) == <<"https:", "", "www.googleapis.com", "compute", "v1",
                  "projects", p, "regions", "r", "subnetworks", "s">>
\* The subnetwork and network attributes the external services may answer
\* with: a network of any project, a subnetwork and a network of two other
\* projects, a network path that names no project.
Bag(subnetwork, network) == [subnetwork |-> subnetwork, network |-> network]
AttrBags ==
    {Bag(NoUrl, NetUrl(p)) : p \in Projects}
      \cup {Bag(SubnetUrl("pc"), NetUrl("pb")), Bag(NoUrl, <<"global", "networks", "n">>)}

Min(S) == CHOOSE x \in S : \A y \in S : x <= y

\* url.match(/projects\/([^\/]+)\//): the first "projects/" that is followed
\* by a non-empty segment and another "/"; Null when there is none.
MatchProject(url) ==
    LET hits == {i \in 1..(Len(url) - 2) : url[i] = "projects" /\ url[i + 1] # ""}
    IN  IF hits = {} THEN Null ELSE url[Min(hits) + 1]

\* matchAll(/projects\/([^\/"]+)\//g) over one quoted string of the JSON
\* text: every match, left to right, a match consuming its two segments.
RECURSIVE MatchAllProjects(_, _)
MatchAllProjects(url, i) ==
    IF i > Len(url) - 2 THEN <<>>
    ELSE IF url[i] = "projects" /\ url[i + 1] # ""
         THEN <<url[i + 1]>> \o MatchAllProjects(url, i + 2)
         ELSE MatchAllProjects(url, i + 1)

\* matchAll(/projects\/([^\/"]+)\/global\/networks/g) over one quoted string.
RECURSIVE MatchAllNetworks(_, _)
MatchAllNetworks(url, i) ==
    IF i > Len(url) - 3 THEN <<>>
    ELSE IF url[i] = "projects" /\ url[i + 1] # ""
            /\ url[i + 2] = "global" /\ url[i + 3] = "networks"
         THEN <<url[i + 1]>> \o MatchAllNetworks(url, i + 3)
         ELSE MatchAllNetworks(url, i + 1)

(***************************************************************************)
(* The rootProjects argument: an array, a comma separated string (each     *)
(* piece an id with blanks around it), or anything else.                   *)
(***************************************************************************)
SeqsUpTo(S, n) == UNION {[1..k -> S] : k \in 0..n}

Pieces == [lead : 0..1, id : RootPool, trail : 0..1]
RootInputs ==
    {[type |-> "array", items |-> s] : s \in SeqsUpTo(RootPool, MaxRoots)}
      \cup {[type |-> "string", pieces |-> s] : s \in SeqsUpTo(Pieces, MaxRoots) \ {<<>>}}
      \cup {[type |-> "other"]}

\* s.trim()
Trim(piece) == piece.id

ParseRoots(input) ==
    IF input.type = "array" THEN input.items
    ELSE IF input.type = "string"
         THEN [i \in 1..Len(input.pieces) |-> Trim(input.pieces[i])]
         ELSE <<>>

Range(s) == {s[i] : i \in 1..Len(s)}

\* A visited set that forgets the roots: new Set<string>().
InitialVisitedEmpty(roots) == {}
\* new Set<string>(startProjects)
InitialVisited(roots) == Range(roots)

(***************************************************************************)
(* The accumulated scope: st = [visited, graph].                           *)
(***************************************************************************)
Edge(source, target, reason) ==
    [source |-> source, target |-> target, reason |-> reason]
ErrorEntry(source) == [source |-> source, error |-> "message"]

IsEdge(e) == "target" \in DOMAIN e

\* A link recorded without the visited-set bookkeeping: projectGraph.push(..)
AddLinkNoVisit(st, source, target, reason) ==
    [st EXCEPT !.graph = Append(@, Edge(source, target, reason))]
\* A link recorded whether or not the target was visited before.
AddLinkUngated(st, source, target, reason) ==
    [visited |-> st.visited \cup {target},
     graph |-> Append(st.graph, Edge(source, target, reason))]
\* A gated link whose target is never marked as visited.
AddLinkUnmarked(st, source, target, reason) ==
    IF target \in st.visited THEN st
    ELSE [st EXCEPT !.graph = Append(@, Edge(source, target, reason))]
\* if (!visitedProjects.has(t)) { visitedProjects.add(t); projectGraph.push(..) }
AddLink(st, source, target, reason) ==
    IF target \in st.visited THEN st
    ELSE [visited |-> st.visited \cup {target},
          graph |-> Append(st.graph, Edge(source, target, reason))]

\* One detected project, as every detection path but the instance one
\* treats it: only the scanned project itself is rejected.
Detect(st, projectId, target, reason) ==
    IF target # projectId THEN AddLink(st, projectId, target, reason) ELSE st

\* The instance path also rejects the provider's own project.
DetectInstance(st, projectId, target, reason) ==
    IF target # projectId /\ target # DenyListed
    THEN AddLink(st, projectId, target, reason) ELSE st

RECURSIVE DetectEach(_, _, _, _)
DetectEach(st, projectId, targets, reason) ==
    IF targets = <<>> THEN st
    ELSE DetectEach(Detect(st, projectId, Head(targets), reason),
                    projectId, Tail(targets), reason)

RECURSIVE DetectEachInstance(_, _, _, _)
DetectEachInstance(st, projectId, targets, reason) ==
    IF targets = <<>> THEN st
    ELSE DetectEachInstance(DetectInstance(st, projectId, Head(targets), reason),
                            projectId, Tail(targets), reason)

\* [a, b].filter(u => typeof u === 'string')
Strings(uris) == SelectSeq(uris, LAMBDA u : u # NoUrl)

\* First-match project of each URI, the URIs without a match dropped.
RECURSIVE FirstMatches(_)
FirstMatches(uris) ==
    IF uris = <<>> THEN <<>>
    ELSE (IF MatchProject(Head(uris)) = Null THEN <<>> ELSE <<MatchProject(Head(uris))>>)
           \o FirstMatches(Tail(uris))

RECURSIVE AllMatches(_)
AllMatches(uris) ==
    IF uris = <<>> THEN <<>>
    ELSE MatchAllProjects(Head(uris), 1) \o AllMatches(Tail(uris))

RECURSIVE AllNetworkMatches(_)
AllNetworkMatches(uris) ==
    IF uris = <<>> THEN <<>>
    ELSE MatchAllNetworks(Head(uris), 1) \o AllNetworkMatches(Tail(uris))

(***************************************************************************)
(* Answers of the external services.                                       *)
(***************************************************************************)
\* projectsClient.getXpnHost: a failure, or a Project whose name may be unset.
XpnResponses ==
    {[ok |-> FALSE]} \cup {[ok |-> TRUE, name |-> n] : n \in Projects \cup {Null}}

AssetTypes == {"Subnetwork", "Network", "InterconnectAttachment", "ForwardingRule"}
NoAttrs == [subnetwork |-> NoUrl, network |-> NoUrl, unset |-> TRUE]
ResourcePool ==
    [assetType : AssetTypes \ {"Subnetwork"},
     attrs : AttrBags \ {Bag(NoUrl, <<"global", "networks", "n">>)}]
      \cup {[assetType |-> "Subnetwork", attrs |-> NoAttrs],
            [assetType |-> "Network", attrs |-> NoAttrs]}

\* An instance's additionalAttributes: unset, or networkInterfaces as one
\* interface object or an array of them.
InstancePool ==
    {[hasNics |-> FALSE]}
      \cup {[hasNics |-> TRUE, isArray |-> FALSE, networkInterfaces |-> n] : n \in AttrBags}
      \cup {[hasNics |-> TRUE, isArray |-> TRUE, networkInterfaces |-> <<n>>] :
              n \in {Bag(NoUrl, NetUrl("pc"))}}

\* What one searchAllResources call answers with: no resource, any single
\* resource, or a forwarding rule followed by a network that names the same
\* project or by an interconnect attachment that names another one.
ResourceAnswers ==
    {<<>>} \cup {<<r>> : r \in ResourcePool}
      \cup {<<[assetType |-> "ForwardingRule", attrs |-> Bag(NoUrl, NetUrl("pc"))],
              [assetType |-> "Network", attrs |-> Bag(NoUrl, NetUrl("pc"))]>>,
            <<[assetType |-> "ForwardingRule", attrs |-> Bag(NoUrl, NetUrl("pc"))],
              [assetType |-> "InterconnectAttachment",
               attrs |-> Bag(NoUrl, NetUrl(DenyListed))]>>}
InstanceAnswers == {<<>>} \cup {<<i>> : i \in InstancePool}

\* resources.filter(r => r.assetType === ...): after the forwarding-rule
\* loop the function reads only the networks and the interconnect
\* attachments of the answer, so the state keeps those.
LaterRead(rs) ==
    SelectSeq(rs, LAMBDA r : r.assetType \in {"Network", "InterconnectAttachment"})

\* JSON.stringify(attrs): the string values of the bag in key order.
JsonStrings(attrs) ==
    Strings(<<attrs.subnetwork, attrs.network>>)

projectId == startProjects[scanIdx]
scope == [visited |-> visitedProjects, graph |-> projectGraph]

\* --- 0. XPN Host Detection
XpnLink(st, project, resp) ==
    IF resp.ok /\ resp.name # Null
    THEN Detect(st, project, resp.name, "xpn") ELSE st

\* --- 4. Shared VPC (listUsable): one yielded subnet
UsableLink(st, project, subnet) ==
    LET rawUrl == IF subnet.subnetwork # NoUrl THEN subnet.subnetwork ELSE subnet.network
    IN  IF rawUrl # NoUrl /\ MatchProject(rawUrl) # Null
        THEN Detect(st, project, MatchProject(rawUrl), "usable") ELSE st

\* for (const res of resources): only forwarding rules are inspected
RECURSIVE ForwardingRuleLinks(_, _, _)
ForwardingRuleLinks(st, project, rs) ==
    IF rs = <<>> THEN st
    ELSE LET res == Head(rs)
             attrs == res.attrs
             urisToCheck == Strings(<<attrs.subnetwork, attrs.network>>)
             st1 == IF res.assetType = "ForwardingRule"
                    THEN DetectEach(st, project, FirstMatches(urisToCheck), "fwd")
                    ELSE st
         IN  ForwardingRuleLinks(st1, project, Tail(rs))

\* for (const nic of nics)
RECURSIVE NicLinks(_, _, _)
NicLinks(st, project, nics) ==
    IF nics = <<>> THEN st
    ELSE LET nic == Head(nics)
             urisToCheck == Strings(<<nic.network, nic.subnetwork>>)
             st1 == DetectEachInstance(st, project, FirstMatches(urisToCheck), "instance")
         IN  NicLinks(st1, project, Tail(nics))

\* for (const inst of instances): every network interface
RECURSIVE InstanceLinks(_, _, _)
InstanceLinks(st, project, insts) ==
    IF insts = <<>> THEN st
    ELSE LET rawAttrs == Head(insts)
             nics == IF ~rawAttrs.hasNics THEN <<>>
                     ELSE IF rawAttrs.isArray THEN rawAttrs.networkInterfaces
                          ELSE <<rawAttrs.networkInterfaces>>
             st1 == NicLinks(st, project, nics)
         IN  InstanceLinks(st1, project, Tail(insts))

\* --- 2. Peering Detection (from Network)
RECURSIVE PeeringLinks(_, _, _)
PeeringLinks(st, project, rs) ==
    IF rs = <<>> THEN st
    ELSE LET net == Head(rs)
             st1 == IF net.assetType = "Network" /\ "unset" \notin DOMAIN net.attrs
                    THEN DetectEach(st, project,
                                    AllNetworkMatches(JsonStrings(net.attrs)), "peering")
                    ELSE st
         IN  PeeringLinks(st1, project, Tail(rs))

\* --- 3. Interconnect
RECURSIVE InterconnectLinks(_, _, _)
InterconnectLinks(st, project, rs) ==
    IF rs = <<>> THEN st
    ELSE LET ic == Head(rs)
             st1 == IF ic.assetType = "InterconnectAttachment"
                    THEN DetectEach(st, project,
                                    AllMatches(JsonStrings(ic.attrs)), "interconnect")
                    ELSE st
         IN  InterconnectLinks(st1, project, Tail(rs))

(***************************************************************************)
(* detectAgentScope, one action per await.                                 *)
(***************************************************************************)
\* the parts of the state a specification does not use
ClockIdle == now = 0
ScopeIdle ==
    /\ startProjects = <<>>
    /\ visitedProjects = {}
    /\ projectGraph = <<>>
    /\ scanIdx = 1
    /\ scanPc = "done"
    /\ usableCount = 0
    /\ resources = <<>>
ProbeIdle == probes = <<>> /\ tests = {}
AgentIdle == variant = "none" /\ runs = <<>> /\ sessions = <<>> /\ convs = <<>>
CallsIdle == inventory = <<>> /\ callRoots = <<>> /\ callResults = <<>>
FlowIdle ==
    /\ flowParams = <<>>
    /\ flowIdx = 1
    /\ flowPc = "returned"
    /\ results = <<>>
    /\ errors = <<>>
    /\ outcomes = <<>>
    /\ queried = <<>>
    /\ tables = <<>>
    /\ flowReturn = <<>>
FwIdle ==
    /\ fwParams = <<>>
    /\ fwPc = "idle"
    /\ apiCalls = <<>>
    /\ operation = "none"
    /\ observed = FALSE
    /\ thrown = <<>>
    /\ fwReturn = <<>>
HttpIdle == env = <<>> /\ requests = <<>>

InitScope ==
    /\ ClockIdle /\ ProbeIdle /\ AgentIdle /\ CallsIdle /\ FlowIdle /\ FwIdle /\ HttpIdle
    /\ \E input \in RootInputs :
        /\ startProjects = ParseRoots(input)
        /\ visitedProjects = InitialVisited(ParseRoots(input))
        /\ projectGraph = <<>>
        /\ scanIdx = 1
        /\ scanPc = IF ParseRoots(input) = <<>> THEN "done" ELSE "xpn"
        /\ usableCount = 0
        /\ resources = <<>>

\* A loop that also takes up a project the scan has just discovered.
NextProjectFrontier ==
    LET found == visitedProjects' \ Range(startProjects)
    IN  /\ startProjects' = IF found = {} THEN startProjects
                            ELSE Append(startProjects, CHOOSE p \in found : TRUE)
        /\ scanIdx' = scanIdx + 1
        /\ scanPc' = IF scanIdx + 1 <= Len(startProjects') THEN "xpn" ELSE "done"
        /\ usableCount' = 0
        /\ resources' = <<>>

\* the for..of loop moves to the next root, or the function returns
NextProject ==
    /\ scanIdx' = scanIdx + 1
    /\ scanPc' = IF scanIdx + 1 <= Len(startProjects) THEN "xpn" ELSE "done"
    /\ usableCount' = 0
    /\ resources' = <<>>
    /\ UNCHANGED startProjects

GetXpnHost ==
    /\ UNCHANGED <<now, probeVars, agentVars, callVars, flowVars, fwVars, httpVars>>
    /\ scanPc = "xpn"
    /\ \E resp \in XpnResponses :
         LET st == XpnLink(scope, projectId, resp)
         IN  /\ visitedProjects' = st.visited
             /\ projectGraph' = st.graph
    /\ scanPc' = "usable"
    /\ UNCHANGED <<startProjects, scanIdx, usableCount, resources>>

ListUsableItem ==
    /\ UNCHANGED <<now, probeVars, agentVars, callVars, flowVars, fwVars, httpVars>>
    /\ scanPc = "usable"
    /\ usableCount < MaxUsable
    /\ \E subnet \in AttrBags :
         LET st == UsableLink(scope, projectId, subnet)
         IN  /\ visitedProjects' = st.visited
             /\ projectGraph' = st.graph
    /\ usableCount' = usableCount + 1
    /\ UNCHANGED <<startProjects, scanIdx, scanPc, resources>>

\* the iterator is exhausted, or it throws and the inner catch logs it
ListUsableEnd ==
    /\ UNCHANGED <<now, probeVars, agentVars, callVars, flowVars, fwVars, httpVars>>
    /\ scanPc = "usable"
    /\ scanPc' = "search"
    /\ UNCHANGED <<startProjects, scanIdx, visitedProjects, projectGraph,
                   usableCount, resources>>

SearchResources ==
    /\ UNCHANGED <<now, probeVars, agentVars, callVars, flowVars, fwVars, httpVars>>
    /\ scanPc = "search"
    /\ \E rs \in ResourceAnswers :
         LET st == ForwardingRuleLinks(scope, projectId, rs)
         IN  /\ visitedProjects' = st.visited
             /\ projectGraph' = st.graph
             /\ resources' = LaterRead(rs)
    /\ scanPc' = "instances"
    /\ UNCHANGED <<startProjects, scanIdx, usableCount>>

SearchInstances ==
    /\ UNCHANGED <<now, probeVars, agentVars, callVars, flowVars, fwVars, httpVars>>
    /\ scanPc = "instances"
    /\ \E insts \in InstanceAnswers :
         LET st1 == InstanceLinks(scope, projectId, insts)
             st2 == PeeringLinks(st1, projectId, resources)
             st3 == InterconnectLinks(st2, projectId, resources)
         IN  /\ visitedProjects' = st3.visited
             /\ projectGraph' = st3.graph
    /\ NextProject

\* A failure that is recorded and ends the whole run.
ScanErrorEndsRun ==
    /\ UNCHANGED <<now, probeVars, agentVars, callVars, flowVars, fwVars, httpVars>>
    /\ scanPc \in {"search", "instances"}
    /\ projectGraph' = Append(projectGraph, ErrorEntry(projectId))
    /\ scanIdx' = Len(startProjects) + 1
    /\ scanPc' = "done"
    /\ usableCount' = 0
    /\ resources' = <<>>
    /\ UNCHANGED <<visitedProjects, startProjects>>

\* either searchAllResources call throws: the outer catch records the error
ScanError ==
    /\ UNCHANGED <<now, probeVars, agentVars, callVars, flowVars, fwVars, httpVars>>
    /\ scanPc \in {"search", "instances"}
    /\ projectGraph' = Append(projectGraph, ErrorEntry(projectId))
    /\ UNCHANGED visitedProjects
    /\ NextProject

NextScope ==
    \/ GetXpnHost
    \/ ListUsableItem
    \/ ListUsableEnd
    \/ SearchResources
    \/ SearchInstances
    \/ ScanError

SpecScope == InitScope /\ [][NextScope]_vars

\* Every await of the scan settles: the call resolves or rejects, and a
\* listing of a finite inventory ends.
SpecScopeLive == SpecScope /\ WF_vars(NextScope)

\* the roots whose scan has started
ScannedRoots == {startProjects[i] : i \in 1..(IF scanIdx <= Len(startProjects)
                                               THEN scanIdx ELSE Len(startProjects))}

(***************************************************************************)
(* The clock behind Date.now().                                            *)
(***************************************************************************)
TickClock == now < MaxClock /\ now' = now + 1

(***************************************************************************)
(* runConnectivityTest, one action per await.  The test resource is named  *)
(* by the project and the testId, `adk-test-${Date.now()}`.                *)
(***************************************************************************)
Verdicts == {"REACHABLE", "UNREACHABLE", Null}

\* JSON.stringify(step) of a trace step: the resource URL it carries
StepPool == {NetUrl(p) : p \in Projects} \cup {SubnetUrl("pc")}
\* response.reachabilityDetails: the verdict and the traces; a trace may
\* have no steps field
TracePool ==
    {[hasSteps |-> FALSE]}
      \cup {[hasSteps |-> TRUE, steps |-> st] : st \in SeqsUpTo(StepPool, MaxSteps)}
ProbeResponses == [result : Verdicts, traces : SeqsUpTo(TracePool, 1)]

TestName(pr) == <<pr.projectId, pr.testId>>

\* the projects found in the steps of one trace
RECURSIVE StepProjects(_, _)
StepProjects(project, steps) ==
    IF steps = <<>> THEN {}
    ELSE {q \in Range(MatchAllProjects(Head(steps), 1)) :
             q # project /\ q # DenyListed}
           \cup StepProjects(project, Tail(steps))

\* for (const trace of traces) if (trace.steps) ...
RECURSIVE DiscoveredProjects(_, _)
DiscoveredProjects(project, traces) ==
    IF traces = <<>> THEN {}
    ELSE (IF Head(traces).hasSteps
          THEN StepProjects(project, Head(traces).steps) ELSE {})
           \cup DiscoveredProjects(project, Tail(traces))

NoResult == [kind |-> "none"]
\* err.message of a rejected call
FailureMessages == {"ALREADY_EXISTS", "PERMISSION_DENIED"}
\* "Ensure API 'networkmanagement.googleapis.com' is enabled and the agent
\* has permissions."
Suggestion == "enable the API and grant permissions"
ErrorResult(err) == [kind |-> "error", error |-> err, suggestion |-> Suggestion]
TestResult(pr) ==
    [kind |-> "ok", testId |-> pr.testId, result |-> pr.verdict,
     discoveredScope |-> pr.discovered]

InitProbe ==
    /\ ScopeIdle /\ ClockIdle /\ AgentIdle /\ CallsIdle /\ FlowIdle /\ FwIdle /\ HttpIdle
    /\ probes = <<>>
    /\ tests = {}

ProbeTick ==
    /\ TickClock
    /\ UNCHANGED <<scopeVars, callVars, flowVars, fwVars, httpVars, probeVars, agentVars>>

\* the call: the id is generated and createConnectivityTest is awaited
ProbeCall ==
    /\ Len(probes) < MaxProbes
    /\ \E project \in RootPool :
         probes' = Append(probes,
                          [pc |-> "create", projectId |-> project, testId |-> now,
                           created |-> FALSE, deleteCalls |-> 0, verdict |-> Null,
                           discovered |-> {}, failure |-> Null,
                           returned |-> NoResult])
    /\ UNCHANGED <<scopeVars, callVars, flowVars, fwVars, httpVars, now, tests, agentVars>>

\* A failure that leaves the function as a rejection of its promise.
ProbeRethrow(i, err) ==
    probes' = [probes EXCEPT ![i].pc = "raised", ![i].failure = err]
\* catch (err): the error result is returned; failure is history, the
\* message of the rejection caught
ProbeCatch(i, err) ==
    probes' = [probes EXCEPT ![i].pc = "returned", ![i].failure = err,
                             ![i].returned = ErrorResult(err)]

\* createConnectivityTest settles; the service refuses a name that exists
CreateTest(i) ==
    /\ probes[i].pc = "create"
    /\ \E ok \in BOOLEAN :
         IF ok /\ TestName(probes[i]) \notin tests
         THEN /\ tests' = tests \cup {TestName(probes[i])}
              /\ probes' = [probes EXCEPT ![i].pc = "wait", ![i].created = TRUE]
         ELSE /\ ProbeCatch(i, IF TestName(probes[i]) \in tests
                                THEN "ALREADY_EXISTS" ELSE "PERMISSION_DENIED")
              /\ UNCHANGED tests
    /\ UNCHANGED <<scopeVars, callVars, flowVars, fwVars, httpVars, now, agentVars>>

\* operation.promise() settles; on success the trace is scanned and
\* deleteConnectivityTest is called
AwaitOperation(i) ==
    /\ probes[i].pc = "wait"
    /\ \/ \E resp \in ProbeResponses :
            probes' = [probes EXCEPT
                         ![i].pc = "delete",
                         ![i].verdict = resp.result,
                         ![i].discovered =
                             DiscoveredProjects(probes[i].projectId, resp.traces),
                         ![i].deleteCalls = @ + 1]
       \/ ProbeCatch(i, "PERMISSION_DENIED")
    /\ UNCHANGED <<scopeVars, callVars, flowVars, fwVars, httpVars, now, tests, agentVars>>

\* deleteConnectivityTest settles
DeleteTest(i) ==
    /\ probes[i].pc = "delete"
    /\ \/ /\ tests' = tests \ {TestName(probes[i])}
          /\ probes' = [probes EXCEPT ![i].pc = "returned",
                                      ![i].returned = TestResult(probes[i])]
       \/ /\ ProbeCatch(i, "PERMISSION_DENIED")
          /\ UNCHANGED tests
    /\ UNCHANGED <<scopeVars, callVars, flowVars, fwVars, httpVars, now, agentVars>>

NextProbe ==
    \/ ProbeTick
    \/ ProbeCall
    \/ \E i \in 1..MaxProbes : i <= Len(probes) /\ CreateTest(i)
    \/ \E i \in 1..MaxProbes : i <= Len(probes) /\ AwaitOperation(i)
    \/ \E i \in 1..MaxProbes : i <= Len(probes) /\ DeleteTest(i)

SpecProbe == InitProbe /\ [][NextProbe]_vars

(***************************************************************************)
(* The agents.  The repository defines the root agent `network_support`    *)
(* twice: once delegating to `troubleshooter` and `firewall_admin`, once   *)
(* as a single agent that holds every tool; `variant` says which one the   *)
(* process runs.                                                           *)
(***************************************************************************)
Variants == {"delegating", "single"}

FetchArchitecture == "fetch_network_architecture"
IdentifyProjects == "identify_network_projects"
ConnectivityTest == "connectivity_test_tool"
FlowLogs == "query_vpc_flow_logs"
ManageFirewall == "manage_firewall_rule"

firewallAdminAgent ==
    [name |-> "firewall_admin", tools |-> {ManageFirewall}, subAgents |-> {}]
troubleshooterAgent ==
    [name |-> "troubleshooter",
     tools |-> {FetchArchitecture, IdentifyProjects, ConnectivityTest, FlowLogs},
     subAgents |-> {"firewall_admin"}]
agent ==
    [name |-> "network_support", tools |-> {}, subAgents |-> {"troubleshooter"}]
singleAgent ==
    [name |-> "network_support",
     tools |-> {FetchArchitecture, IdentifyProjects, ConnectivityTest, FlowLogs,
                ManageFirewall},
     subAgents |-> {}]

AgentTree(v) ==
    IF v = "delegating" THEN {agent, troubleshooterAgent, firewallAdminAgent}
    ELSE {singleAgent}

AgentNamed(v, name) == CHOOSE a \in AgentTree(v) : a.name = name

\* the tools the runner offers to the oracle while `name` is the active agent
DeclaredTools(v, name) == AgentNamed(v, name).tools

\* the agents the active agent may hand over to: its sub-agents and its parent
TransferTargets(v, name) ==
    AgentNamed(v, name).subAgents
      \cup {a.name : a \in {b \in AgentTree(v) : name \in b.subAgents}}

(***************************************************************************)
(* runAgent.  A user message belongs to a conversation and is a first      *)
(* request, an affirmative reply or a refusal; the oracle's decisions      *)
(* (tool call, transfer, text) are unconstrained beyond what the runner    *)
(* offers the active agent.                                                *)
(***************************************************************************)
MessageKinds == {"request", "affirm", "refuse"}

SessionId(t) == t     \* 'session-' + Date.now()

NoSession == [exists |-> FALSE, turns |-> <<>>]
NewSession == [exists |-> TRUE, turns |-> <<>>]

Init ==
    /\ ScopeIdle /\ ClockIdle /\ ProbeIdle /\ CallsIdle /\ FlowIdle /\ FwIdle /\ HttpIdle
    /\ variant \in Variants
    /\ runs = <<>>
    /\ sessions = [t \in 0..MaxClock |-> NoSession]
    /\ convs = [c \in 1..MaxConvs |->
                  [turns |-> 0, proposed |-> FALSE, confirmed |-> FALSE,
                   scoped |-> FALSE]]

AgentTick ==
    /\ TickClock
    /\ UNCHANGED <<scopeVars, callVars, flowVars, fwVars, httpVars, probeVars, agentVars>>

\* what the user's next message does to the conversation
UserTurn(cv, kind) ==
    [cv EXCEPT !.turns = @ + 1,
               !.confirmed = IF kind = "affirm" THEN cv.proposed
                             ELSE IF kind = "refuse" THEN FALSE ELSE @,
               !.proposed = IF kind = "refuse" THEN FALSE ELSE @]

\* POST /query reaches runAgent: the session id is taken from the clock
StartRun ==
    /\ Len(runs) < MaxRuns
    /\ \E c \in 1..MaxConvs :
         /\ \A r \in 1..Len(runs) : runs[r].conv = c => runs[r].pc = "done"
         /\ \A d \in 1..(c - 1) : convs[d].turns > 0
         /\ \E kind \in (IF convs[c].turns = 0 THEN {"request"} ELSE MessageKinds) :
              /\ runs' = Append(runs,
                                [pc |-> "ensure", conv |-> c,
                                 turn |-> convs[c].turns + 1,
                                 sessionId |-> SessionId(now), agent |-> agent.name,
                                 tool |-> Null, unverified |-> FALSE])
              /\ convs' = [convs EXCEPT ![c] = UserTurn(@, kind)]
    /\ UNCHANGED <<scopeVars, callVars, flowVars, fwVars, httpVars, now, probeVars, variant, sessions>>

\* getSession, and createSession when there is none
EnsureSession(r) ==
    /\ runs[r].pc = "ensure"
    /\ sessions' = [sessions EXCEPT ![runs[r].sessionId] =
                      IF @.exists THEN @ ELSE NewSession]
    /\ runs' = [runs EXCEPT ![r].pc = "runner"]
    /\ UNCHANGED <<scopeVars, callVars, flowVars, fwVars, httpVars, now, probeVars, variant, convs>>

\* runner.runAsync appends the new message to the session and starts the
\* root agent
RunnerStart(r) ==
    /\ runs[r].pc = "runner"
    /\ sessions' = [sessions EXCEPT ![runs[r].sessionId].turns =
                      Append(@, [conv |-> runs[r].conv, turn |-> runs[r].turn])]
    /\ runs' = [runs EXCEPT ![r].pc = "llm"]
    /\ UNCHANGED <<scopeVars, callVars, flowVars, fwVars, httpVars, now, probeVars, variant, convs>>

\* the oracle asks for a tool the active agent declares
CallTool(r, t) ==
    /\ runs[r].pc = "llm"
    /\ t \in DeclaredTools(variant, runs[r].agent)
    /\ runs' = [runs EXCEPT ![r].pc = "tool", ![r].tool = t,
                            ![r].unverified =
                                IF t = ManageFirewall THEN TRUE
                                ELSE IF t = ConnectivityTest THEN FALSE ELSE @]
    /\ convs' = [convs EXCEPT ![runs[r].conv].scoped = @ \/ t = IdentifyProjects]
    /\ UNCHANGED <<scopeVars, callVars, flowVars, fwVars, httpVars, now, probeVars, variant, sessions>>

\* the tool's promise settles and its result goes back to the oracle; an
\* applied mutation uses up the user's confirmation
ToolReturn(r) ==
    /\ runs[r].pc = "tool"
    /\ runs' = [runs EXCEPT ![r].pc = "llm", ![r].tool = Null]
    /\ convs' = [convs EXCEPT
                   ![runs[r].conv].confirmed =
                       IF runs[r].tool = ManageFirewall THEN FALSE ELSE @,
                   ![runs[r].conv].proposed =
                       IF runs[r].tool = ManageFirewall THEN FALSE ELSE @]
    /\ UNCHANGED <<scopeVars, callVars, flowVars, fwVars, httpVars, now, probeVars, variant, sessions>>

\* the oracle hands over to another agent
Transfer(r, b) ==
    /\ runs[r].pc = "llm"
    /\ b \in TransferTargets(variant, runs[r].agent)
    /\ runs' = [runs EXCEPT ![r].agent = b]
    /\ UNCHANGED <<scopeVars, callVars, flowVars, fwVars, httpVars, now, probeVars, variant, sessions, convs>>

\* the oracle answers with text, which ends the run; the text may propose a
\* fix and ask the user to confirm it
Answer(r) ==
    /\ runs[r].pc = "llm"
    /\ \E proposes \in BOOLEAN :
         convs' = [convs EXCEPT
                     ![runs[r].conv].proposed = @ \/ proposes,
                     ![runs[r].conv].confirmed = IF proposes THEN FALSE ELSE @]
    /\ runs' = [runs EXCEPT ![r].pc = "done", ![r].agent = agent.name]
    /\ UNCHANGED <<scopeVars, callVars, flowVars, fwVars, httpVars, now, probeVars, variant, sessions>>

AgentNames == {"network_support", "troubleshooter", "firewall_admin"}
ToolNames == {FetchArchitecture, IdentifyProjects, ConnectivityTest, FlowLogs,
              ManageFirewall}

Next ==
    \/ AgentTick
    \/ StartRun
    \/ \E r \in 1..MaxRuns : r <= Len(runs) /\ EnsureSession(r)
    \/ \E r \in 1..MaxRuns : r <= Len(runs) /\ RunnerStart(r)
    \/ \E r \in 1..MaxRuns, t \in ToolNames : r <= Len(runs) /\ CallTool(r, t)
    \/ \E r \in 1..MaxRuns : r <= Len(runs) /\ ToolReturn(r)
    \/ \E r \in 1..MaxRuns, b \in AgentNames : r <= Len(runs) /\ Transfer(r, b)
    \/ \E r \in 1..MaxRuns : r <= Len(runs) /\ Answer(r)

Spec == Init /\ [][Next]_vars

(***************************************************************************)
(* detectAgentScope as a function of its roots and of what the services    *)
(* hold: the awaits of one call are sequential, so with fixed answers the  *)
(* call computes one result.                                               *)
(***************************************************************************)
\* What the services answer for one project: getXpnHost, the subnets
\* listUsableAsync yields before it ends or throws, and the two
\* searchAllResources answers.
XpnData == {[ok |-> FALSE], [ok |-> TRUE, name |-> "pb"], [ok |-> TRUE, name |-> "pc"]}
UsableData ==
    {[ok |-> TRUE, items |-> <<>>],
     [ok |-> TRUE, items |-> <<Bag(NoUrl, NetUrl("pc"))>>],
     [ok |-> FALSE, items |-> <<>>]}
ResourceData ==
    {[ok |-> FALSE],
     [ok |-> TRUE, items |-> <<>>],
     [ok |-> TRUE, items |-> <<[assetType |-> "Network", attrs |-> Bag(NoUrl, NetUrl("pc"))]>>],
     [ok |-> TRUE, items |-> <<[assetType |-> "InterconnectAttachment",
                                attrs |-> Bag(NoUrl, NetUrl(DenyListed))]>>]}
InstanceData ==
    {[ok |-> FALSE],
     [ok |-> TRUE, items |-> <<>>],
     [ok |-> TRUE, items |-> <<[hasNics |-> TRUE, isArray |-> FALSE,
                                networkInterfaces |-> Bag(NoUrl, NetUrl("pc"))]>>]}
ProjectData ==
    [xpn : XpnData, usable : UsableData, resources : ResourceData, instances : InstanceData]
\* a project nobody scans holds nothing that matters
Unscanned ==
    [xpn |-> [ok |-> FALSE], usable |-> [ok |-> TRUE, items |-> <<>>],
     resources |-> [ok |-> FALSE], instances |-> [ok |-> FALSE]]

\* for await (const subnet of usableSubnets)
RECURSIVE UsableLinks(_, _, _)
UsableLinks(st, project, subnets) ==
    IF subnets = <<>> THEN st
    ELSE UsableLinks(UsableLink(st, project, Head(subnets)), project, Tail(subnets))

\* catch (e): projectGraph.push({source, error})
Failed(st, project) == [st EXCEPT !.graph = Append(@, ErrorEntry(project))]

\* the body of the for..of loop for one root
ScanProject(st, project, data) ==
    LET st1 == XpnLink(st, project, data.xpn)
        st2 == UsableLinks(st1, project, data.usable.items)
    IN  IF ~data.resources.ok THEN Failed(st2, project)
        ELSE LET rs == data.resources.items
                 st3 == ForwardingRuleLinks(st2, project, rs)
             IN  IF ~data.instances.ok THEN Failed(st3, project)
                 ELSE LET st4 == InstanceLinks(st3, project, data.instances.items)
                          st5 == PeeringLinks(st4, project, rs)
                      IN  InterconnectLinks(st5, project, rs)

RECURSIVE ScanRoots(_, _, _)
ScanRoots(st, roots, inv) ==
    IF roots = <<>> THEN st
    ELSE ScanRoots(ScanProject(st, Head(roots), inv[Head(roots)]), Tail(roots), inv)

FreshScope(roots) == [visited |-> InitialVisited(roots), graph |-> <<>>]

DetectAgentScope(roots, inv) ==
    LET st == ScanRoots(FreshScope(roots), roots, inv)
    IN  [detectedScope |-> st.visited, relationships |-> st.graph]

\* Services that have lost their data after the first call.
HeldOnce(inv, call) ==
    IF call = 1 THEN inv ELSE [p \in DOMAIN inv |-> Unscanned]
\* What the services hold when call number `call` is made: the backing data
\* does not change between the calls.
Held(inv, call) == inv

InitCalls ==
    /\ ScopeIdle /\ ClockIdle /\ ProbeIdle /\ AgentIdle /\ FlowIdle /\ FwIdle /\ HttpIdle
    /\ callRoots \in SeqsUpTo(RootPool, MaxRoots)
    /\ inventory \in {inv \in [RootPool -> ProjectData] :
                         \A p \in RootPool \ Range(callRoots) : inv[p] = Unscanned}
    /\ callResults = <<>>

\* one more call with the same roots, the services unchanged
CallAgain ==
    /\ Len(callResults) < MaxCalls
    /\ callResults' = Append(callResults,
                              DetectAgentScope(callRoots,
                                               Held(inventory, Len(callResults) + 1)))
    /\ UNCHANGED <<inventory, callRoots>>
    /\ UNCHANGED <<scopeVars, now, probeVars, agentVars, flowVars, fwVars, httpVars>>

NextCalls == CallAgain

SpecCalls == InitCalls /\ [][NextCalls]_vars

(***************************************************************************)
(* queryVpcFlowLogs (tools/vpc-flow-logs): one bigquery.query per distinct *)
(* project, awaited one after the other, then sort, slice and return.      *)
(***************************************************************************)
DefaultLimit == 20
FlowProjects == {"pa", "pb"}

\* params.projects: an array of project ids, or a single id
ProjectsInputs ==
    {[isArray |-> TRUE, items |-> l] : l \in SeqsUpTo(FlowProjects, MaxList)}
      \cup {[isArray |-> FALSE, item |-> p] : p \in FlowProjects}
\* params.limit: omitted, or an integer
LimitInputs ==
    {[given |-> FALSE]} \cup {[given |-> TRUE, value |-> n] : n \in {-1, 0, 1, 2}}

\* const { ..., limit = 20 } = params
LimitOf(params) == IF params.limit.given THEN params.limit.value ELSE DefaultLimit

\* Array.isArray(projects) ? projects : [projects]
ProjectList(projects) ==
    IF projects.isArray THEN projects.items ELSE <<projects.item>>

\* A list that is passed on with its repetitions.
NoDedup(list, seen) == list

\* Array.from(new Set(list)): the first occurrences, in order
RECURSIVE DedupFrom(_, _)
DedupFrom(list, seen) ==
    IF list = <<>> THEN <<>>
    ELSE IF Head(list) \in seen THEN DedupFrom(Tail(list), seen)
         ELSE <<Head(list)>> \o DedupFrom(Tail(list), seen \cup {Head(list)})

uniqueProjects == DedupFrom(ProjectList(flowParams.projects), {})

\* The rows a query selects: the timestamp column arrives as an object with
\* a value or as a plain value (in milliseconds here), and
\* resource_project_id names the project of the logged resource.
RowPool ==
    {[timestamp |-> [wrapped |-> TRUE, value |-> 1], resource_project_id |-> "pa"],
     [timestamp |-> [wrapped |-> TRUE, value |-> 2], resource_project_id |-> "pb"],
     [timestamp |-> [wrapped |-> FALSE, value |-> 2], resource_project_id |-> "pa"]}

\* new Date(a.timestamp?.value || a.timestamp).getTime()
TimeOf(row) == row.timestamp.value

\* ORDER BY timestamp DESC LIMIT @limit: what one query may answer with. A
\* negative limit is left to the service, which may answer or reject.
QueryAnswers(limit) ==
    {a \in SeqsUpTo(RowPool, MaxRows) :
        /\ \A i \in 1..(Len(a) - 1) : TimeOf(a[i]) >= TimeOf(a[i + 1])
        /\ limit >= 0 => Len(a) <= limit}

\* The rows of one table that match the WHERE clause, in an order that
\* ORDER BY timestamp DESC may produce.
TableRows ==
    {t \in SeqsUpTo(RowPool, MaxRows) :
        \A i \in 1..(Len(t) - 1) : TimeOf(t[i]) >= TimeOf(t[i + 1])}

\* LIMIT @limit over ORDER BY timestamp DESC: the first limit rows of the
\* table, all of them when it holds fewer
AnswersFrom(table, limit) ==
    {a \in QueryAnswers(limit) :
        /\ Len(a) <= Len(table)
        /\ a = SubSeq(table, 1, Len(a))
        /\ limit >= 0 => Len(a) = (IF limit < Len(table) THEN limit ELSE Len(table))}

\* A tag taken from the row itself instead of the project queried.
TagFromRow(row, project, i) ==
    [timestamp |-> row.timestamp,
     resource_project_id |-> row.resource_project_id,
     table |-> project, idx |-> i,
     source_dataset_project |-> row.resource_project_id]
\* { ...row, source_dataset_project: projectId }; table and idx are history:
\* the table the row was read from and its position in that answer.
Tag(row, project, i) ==
    [timestamp |-> row.timestamp,
     resource_project_id |-> row.resource_project_id,
     table |-> project, idx |-> i,
     source_dataset_project |-> project]

\* results.push(...rows.map(row => ...))
Tagged(rows, project) == [i \in 1..Len(rows) |-> Tag(rows[i], project, i)]

\* The comparator of results.sort: tB - tA.
CompareAscending(a, b) == TimeOf(a) - TimeOf(b)
Compare(a, b) == TimeOf(b) - TimeOf(a)

\* An insertion that puts a row in front of the rows it ties with.
RECURSIVE InsertBeforeTies(_, _)
InsertBeforeTies(sorted, row) ==
    IF sorted = <<>> THEN <<row>>
    ELSE IF Compare(Head(sorted), row) < 0
         THEN <<Head(sorted)>> \o InsertBeforeTies(Tail(sorted), row)
         ELSE <<row>> \o sorted

\* Array.prototype.sort is stable: a row goes behind every row already
\* placed that the comparator does not put after it.
RECURSIVE InsertSorted(_, _)
InsertSorted(sorted, row) ==
    IF sorted = <<>> THEN <<row>>
    ELSE IF Compare(Head(sorted), row) <= 0
         THEN <<Head(sorted)>> \o InsertSorted(Tail(sorted), row)
         ELSE <<row>> \o sorted

RECURSIVE Sort(_)
Sort(rows) ==
    IF rows = <<>> THEN <<>>
    ELSE InsertSorted(Sort(SubSeq(rows, 1, Len(rows) - 1)), rows[Len(rows)])

\* Array.prototype.slice(0, end)
Slice(rows, end) ==
    LET to == IF end < 0 THEN (IF Len(rows) + end < 0 THEN 0 ELSE Len(rows) + end)
              ELSE IF end > Len(rows) THEN Len(rows) ELSE end
    IN  SubSeq(rows, 1, to)

\* A result that is cut to limit before it is sorted.
FlowResultCutFirst(rs, es, limit) ==
    LET finalResults == Sort(Slice(rs, limit))
    IN  [recordCount |-> Len(finalResults),
         records |-> finalResults,
         errorsDefined |-> Len(es) > 0,
         errors |-> es,
         message |-> IF Len(finalResults) > 0 THEN "found" ELSE "none"]
\* lines 88-104: sort, slice and build the returned object
FlowResult(rs, es, limit) ==
    LET finalResults == Slice(Sort(rs), limit)
    IN  [recordCount |-> Len(finalResults),
         records |-> finalResults,
         errorsDefined |-> Len(es) > 0,
         errors |-> es,
         message |-> IF Len(finalResults) > 0 THEN "found" ELSE "none"]

NotReturned == [recordCount |-> 0, records |-> <<>>, errorsDefined |-> FALSE,
                errors |-> <<>>, message |-> "pending"]

InitFlow ==
    /\ ScopeIdle /\ ClockIdle /\ ProbeIdle /\ AgentIdle /\ CallsIdle /\ FwIdle /\ HttpIdle
    /\ flowParams \in [projects : ProjectsInputs, limit : LimitInputs]
    /\ flowIdx = 1
    /\ results = <<>>
    /\ errors = <<>>
    /\ outcomes = <<>>
    /\ queried = IF uniqueProjects = <<>> THEN <<>> ELSE <<uniqueProjects[1]>>
    /\ tables = <<>>
    /\ flowPc = IF uniqueProjects = <<>> THEN "returned" ELSE "query"
    /\ flowReturn = IF uniqueProjects = <<>>
                    THEN FlowResult(<<>>, <<>>, LimitOf(flowParams)) ELSE NotReturned

\* the loop goes on to the next project, or the function returns
NextQuery(rs, es) ==
    /\ flowIdx' = flowIdx + 1
    /\ flowPc' = IF flowIdx < Len(uniqueProjects) THEN "query" ELSE "returned"
    /\ flowReturn' = IF flowIdx < Len(uniqueProjects) THEN flowReturn
                     ELSE FlowResult(rs, es, LimitOf(flowParams))
    /\ queried' = IF flowIdx < Len(uniqueProjects)
                  THEN Append(queried, uniqueProjects[flowIdx + 1]) ELSE queried
    /\ UNCHANGED flowParams

\* const [rows] = await bigquery.query(options) resolves
QueryResolves ==
    /\ UNCHANGED <<scopeVars, now, probeVars, agentVars, callVars, fwVars, httpVars>>
    /\ flowPc = "query"
    /\ \E table \in TableRows :
         /\ tables' = Append(tables, table)
         /\ \E rows \in AnswersFrom(table, LimitOf(flowParams)) :
              /\ results' = results \o Tagged(rows, uniqueProjects[flowIdx])
              /\ NextQuery(results \o Tagged(rows, uniqueProjects[flowIdx]), errors)
    /\ outcomes' = Append(outcomes, TRUE)
    /\ UNCHANGED errors

\* A rejected query that ends the whole correlation.
QueryRejectsAndReturns ==
    /\ UNCHANGED <<scopeVars, now, probeVars, agentVars, callVars, fwVars, httpVars>>
    /\ flowPc = "query"
    /\ errors' = Append(errors, [projectId |-> uniqueProjects[flowIdx],
                                 error |-> "message"])
    /\ flowIdx' = flowIdx + 1
    /\ flowPc' = "returned"
    /\ flowReturn' = FlowResult(results, errors', LimitOf(flowParams))
    /\ outcomes' = Append(outcomes, FALSE)
    /\ tables' = Append(tables, <<>>)
    /\ UNCHANGED <<results, flowParams, queried>>

\* the query rejects: catch (err) pushes the error entry
QueryRejects ==
    /\ UNCHANGED <<scopeVars, now, probeVars, agentVars, callVars, fwVars, httpVars>>
    /\ flowPc = "query"
    /\ errors' = Append(errors, [projectId |-> uniqueProjects[flowIdx],
                                 error |-> "message"])
    /\ NextQuery(results, Append(errors, [projectId |-> uniqueProjects[flowIdx],
                                          error |-> "message"]))
    /\ outcomes' = Append(outcomes, FALSE)
    /\ tables' = Append(tables, <<>>)
    /\ UNCHANGED results

NextFlow == QueryResolves \/ QueryRejects

SpecFlow == InitFlow /\ [][NextFlow]_vars

(***************************************************************************)
(* manageFirewallRule (tools/firewall-manager): the mutation call is       *)
(* awaited, then the completion of the operation it resolved with.         *)
(***************************************************************************)
\* params.action: the three verbs of the tool and one it does not know
FwActions == {"create", "update", "delete", "purge"}
ruleName == "allow-web"

\* params.network: unset, a string (its "/"-separated segments: a bare name,
\* a URL or the empty string), or a value that is not a string
NetworkInputs ==
    {[kind |-> "unset"], [kind |-> "number"]}
      \cup {[kind |-> "string", str |-> u] : u \in {<<"vpc">>, NetUrl("pb"), <<"">>}}
\* params.priority, one of the optional rule fields
PriorityInputs == {[given |-> FALSE], [given |-> TRUE, value |-> 1000]}

FwParamsInputs ==
    [projectId : RootPool, action : FwActions, network : NetworkInputs,
     priority : PriorityInputs]

\* network && ... : the empty string is falsy
Truthy(network) == network.kind = "number" \/ (network.kind = "string" /\ network.str # <<"">>)

\* network.includes('/') on a value that has no such method
IncludesThrows(params) == params.network.kind = "number"

\* lines 25-28: a bare name is qualified with the project, anything else is
\* passed on as it is
networkUri(params) ==
    IF params.network.kind = "string" /\ Truthy(params.network)
         /\ Len(params.network.str) = 1
    THEN [kind |-> "string",
          str |-> <<"projects", params.projectId, "global", "networks">>
                      \o params.network.str]
    ELSE params.network

\* the optional fields that are set; undefined ones are deleted
OptionalFields(params) ==
    IF params.priority.given THEN "priority" :> params.priority.value ELSE <<>>

\* lines 33-45: firewallResource of insert, network kept unless undefined
InsertResource(params) ==
    ("name" :> ruleName)
      @@ (IF networkUri(params).kind # "unset"
          THEN "network" :> networkUri(params).str ELSE <<>>)
      @@ OptionalFields(params)

\* lines 53-64: firewallResource of patch, network kept when truthy
PatchResource(params) ==
    ("name" :> ruleName)
      @@ (IF Truthy(networkUri(params))
          THEN "network" :> networkUri(params).str ELSE <<>>)
      @@ OptionalFields(params)

\* Every recognised action sent as an insert.
MutationCallInsert(params) ==
    [method |-> "insert", project |-> params.projectId,
     firewallResource |-> InsertResource(params)]
\* the call each recognised action issues
MutationCall(params) ==
    IF params.action = "create"
    THEN [method |-> "insert", project |-> params.projectId,
          firewallResource |-> InsertResource(params)]
    ELSE IF params.action = "update"
    THEN [method |-> "patch", project |-> params.projectId, firewall |-> ruleName,
          firewallResource |-> PatchResource(params)]
    ELSE [method |-> "delete", project |-> params.projectId, firewall |-> ruleName]

\* what a mutation call resolves with: an operation that has promise(), or
\* an object that has none
Operations == {"lro", "plain"}

\* err.message of a failure, as the words of the message
FwFailures == {<<"PERMISSION_DENIED">>, <<"RESOURCE_NOT_FOUND">>}
UnknownAction(params) == <<"Unknown action:", params.action>>
NotAFunction == <<"network.includes is not a function">>

\* lines 112-120
FwSuccess(params) ==
    [status |-> "success",
     message |-> <<"Successfully performed", params.action,
                   "on firewall rule", ruleName>>,
     details |-> [projectId |-> params.projectId, ruleName |-> ruleName,
                  action |-> params.action]]
\* lines 124-127
FwFailure(params, err) ==
    [status |-> "error",
     message |-> <<"Failed to", params.action, "firewall rule:">> \o err]

InitFirewall ==
    /\ ScopeIdle /\ ClockIdle /\ ProbeIdle /\ AgentIdle /\ CallsIdle /\ FlowIdle
    /\ FwIdle /\ HttpIdle

\* catch (error): the failure result is returned
FwCatch(params, err) ==
    /\ fwPc' = "returned"
    /\ thrown' = err
    /\ fwReturn' = FwFailure(params, err)

\* A return that does not wait for the operation.
FwReturnUnwaited(op) ==
    /\ fwPc' = "returned"
    /\ fwReturn' = FwSuccess(fwParams)
    /\ UNCHANGED thrown
\* line 103: an operation with promise() is awaited, any other falls
\* through to the return
FwAfterMutation(op) ==
    IF op = "lro"
    THEN /\ fwPc' = "wait"
         /\ UNCHANGED <<fwReturn, thrown>>
    ELSE /\ fwPc' = "returned"
         /\ fwReturn' = FwSuccess(fwParams)
         /\ UNCHANGED thrown

\* lines 32-80: the call of the action is issued, or the action is unknown
FwDispatch(params) ==
    IF params.action \in {"create", "update", "delete"}
    THEN /\ apiCalls' = Append(apiCalls, MutationCall(params))
         /\ fwPc' = "mutate"
         /\ UNCHANGED <<thrown, fwReturn>>
    ELSE /\ FwCatch(params, UnknownAction(params))
         /\ UNCHANGED apiCalls

\* the call, up to the first await
ManageCall ==
    /\ UNCHANGED <<scopeVars, now, probeVars, agentVars, callVars, flowVars, httpVars>>
    /\ fwPc = "idle"
    /\ \E params \in FwParamsInputs :
         /\ fwParams' = params
         /\ IF Truthy(params.network) /\ IncludesThrows(params)
            THEN /\ fwPc' = "raised"
                 /\ thrown' = NotAFunction
                 /\ UNCHANGED <<apiCalls, fwReturn>>
            ELSE FwDispatch(params)
    /\ UNCHANGED <<operation, observed>>

\* firewallsClient.insert / patch / delete settles
MutationSettles ==
    /\ UNCHANGED <<scopeVars, now, probeVars, agentVars, callVars, flowVars, httpVars>>
    /\ fwPc = "mutate"
    /\ \/ \E op \in Operations :
            /\ operation' = op
            /\ FwAfterMutation(op)
       \/ \E err \in FwFailures :
            /\ FwCatch(fwParams, err)
            /\ UNCHANGED operation
    /\ UNCHANGED <<fwParams, apiCalls, observed>>

\* operation.promise() settles
OperationSettles ==
    /\ UNCHANGED <<scopeVars, now, probeVars, agentVars, callVars, flowVars, httpVars>>
    /\ fwPc = "wait"
    /\ \/ /\ observed' = TRUE
          /\ fwPc' = "returned"
          /\ fwReturn' = FwSuccess(fwParams)
          /\ UNCHANGED thrown
       \/ \E err \in FwFailures :
            /\ FwCatch(fwParams, err)
            /\ UNCHANGED observed
    /\ UNCHANGED <<fwParams, apiCalls, operation>>

NextFirewall ==
    \/ ManageCall
    \/ MutationSettles
    \/ OperationSettles

SpecFirewall == InitFirewall /\ [][NextFirewall]_vars

(***************************************************************************)
(* The POST /query handler (index.ts): the body is checked, runAgent is    *)
(* awaited and its result or its failure is sent.                          *)
(***************************************************************************)
\* a field of req.body, or the environment variable: absent, or a string
\* (the empty string included)
PromptInputs ==
    {[given |-> FALSE]} \cup {[given |-> TRUE, value |-> v] : v \in {"", "why"}}
ProjectIdInputs ==
    {[given |-> FALSE]} \cup {[given |-> TRUE, value |-> v] : v \in {"", "pa"}}
EnvInputs ==
    {[given |-> FALSE]} \cup {[given |-> TRUE, value |-> v] : v \in {"", "pb"}}
Bodies == [prompt : PromptInputs, projectId : ProjectIdInputs]

\* !x: undefined and the empty string are falsy
Falsy(x) == ~x.given \/ x.value = ""

\* A check of the prompt that lets every body pass.
PromptAlwaysPresent(body) == FALSE
\* if (!prompt)
PromptMissing(body) == Falsy(body.prompt)

\* projectId || process.env.GOOGLE_CLOUD_PROJECT
targetProjectId(body, e) == IF Falsy(body.projectId) THEN e ELSE body.projectId

PromptRequired == "Prompt is required"
ProjectIdRequired == "ProjectId is required in body or GOOGLE_CLOUD_PROJECT env var"
\* error.message of a failed runAgent
AgentFailures == {"UNAVAILABLE", "session error"}

NoResponse == [status |-> 0, kind |-> "none"]
ErrorResponse(code, msg) == [status |-> code, kind |-> "error", error |-> msg]
\* res.send(result): status 200 with what runAgent returned
ResultResponse(prompt, project) ==
    [status |-> 200, kind |-> "result", prompt |-> prompt, project |-> project]

InitQuery ==
    /\ ScopeIdle /\ ClockIdle /\ ProbeIdle /\ AgentIdle /\ CallsIdle /\ FlowIdle
    /\ FwIdle
    /\ env \in EnvInputs
    /\ requests = <<>>

\* lines 20-35: the request is answered with 400, or runAgent is called
Received(body, e) ==
    IF PromptMissing(body)
    THEN [body |-> body, pc |-> "responded", agentCalls |-> <<>>,
          failure |-> "", response |-> ErrorResponse(400, PromptRequired)]
    ELSE IF Falsy(targetProjectId(body, e))
    THEN [body |-> body, pc |-> "responded", agentCalls |-> <<>>,
          failure |-> "", response |-> ErrorResponse(400, ProjectIdRequired)]
    ELSE [body |-> body, pc |-> "agent",
          agentCalls |-> <<[prompt |-> body.prompt,
                            projectId |-> targetProjectId(body, e)]>>,
          failure |-> "", response |-> NoResponse]

PostQuery ==
    /\ UNCHANGED <<scopeVars, now, probeVars, agentVars, callVars, flowVars, fwVars>>
    /\ Len(requests) < MaxRequests
    /\ \E body \in Bodies : requests' = Append(requests, Received(body, env))
    /\ UNCHANGED env

\* await runAgent resolves: res.send(result)
AgentResolves(i) ==
    /\ UNCHANGED <<scopeVars, now, probeVars, agentVars, callVars, flowVars, fwVars>>
    /\ requests[i].pc = "agent"
    /\ requests' = [requests EXCEPT
                      ![i].pc = "responded",
                      ![i].response =
                          ResultResponse(requests[i].agentCalls[1].prompt,
                                         requests[i].agentCalls[1].projectId)]
    /\ UNCHANGED env

\* await runAgent rejects: catch (error) answers 500; failure is history,
\* the message runAgent failed with
AgentRejects(i) ==
    /\ UNCHANGED <<scopeVars, now, probeVars, agentVars, callVars, flowVars, fwVars>>
    /\ requests[i].pc = "agent"
    /\ \E msg \in AgentFailures :
         requests' = [requests EXCEPT
                        ![i].pc = "responded",
                        ![i].failure = msg,
                        ![i].response = ErrorResponse(500, msg)]
    /\ UNCHANGED env

NextQueryRequest ==
    \/ PostQuery
    \/ \E i \in 1..MaxRequests : i <= Len(requests) /\ AgentResolves(i)
    \/ \E i \in 1..MaxRequests : i <= Len(requests) /\ AgentRejects(i)

SpecQuery == InitQuery /\ [][NextQueryRequest]_vars

(***************************************************************************)
(* Properties.                                                             *)
(***************************************************************************)
InFlight(r, t) == runs[r].pc = "tool" /\ runs[r].tool = t

\* C1: manage_firewall_rule is never invoked unless the user affirmed the
\* proposed fix after it was proposed and before the mutation.
C1_ConfirmationGate ==
    \A r \in 1..Len(runs) :
        InFlight(r, ManageFirewall) => convs[runs[r].conv].confirmed

\* C2: an invocation of runConnectivityTest that created its test resource
\* has made exactly one deleteConnectivityTest call when it returns.
C2_ExactlyOneDelete ==
    \A i \in 1..Len(probes) :
        (probes[i].pc = "returned" /\ probes[i].created)
            => probes[i].deleteCalls = 1

\* C3: an agent invokes only tools of its own declared set; network_support
\* invokes no tool, troubleshooter declares no mutating tool, and
\* manage_firewall_rule is invoked by firewall_admin only.
C3_AuthorizationBoundary ==
    /\ \A r \in 1..Len(runs) :
          runs[r].pc = "tool" =>
              /\ runs[r].tool \in DeclaredTools(variant, runs[r].agent)
              /\ runs[r].agent # "network_support"
              /\ (runs[r].tool = ManageFirewall => runs[r].agent = "firewall_admin")
    /\ \A a \in AgentTree(variant) :
          a.name = "troubleshooter" => ManageFirewall \notin a.tools

\* C4: a run that invoked manage_firewall_rule does not end before
\* connectivity_test_tool has been invoked again.
C4_VerifyAfterApply ==
    \A r \in 1..Len(runs) : runs[r].pc = "done" => ~runs[r].unverified

\* C5: connectivity_test_tool, query_vpc_flow_logs and
\* fetch_network_architecture are invoked only after
\* identify_network_projects has been.
C5_ScopingFirst ==
    \A r \in 1..Len(runs) :
        (runs[r].pc = "tool"
           /\ runs[r].tool \in {ConnectivityTest, FlowLogs, FetchArchitecture})
            => convs[runs[r].conv].scoped

\* C6: a follow-up message of a conversation is handled in the session that
\* holds the earlier turns of that conversation.
C6_FollowUpSameSession ==
    \A r \in 1..Len(runs) :
        runs[r].pc \in {"llm", "tool", "done"} =>
            \A k \in 1..(runs[r].turn - 1) :
                [conv |-> runs[r].conv, turn |-> k]
                    \in Range(sessions[runs[r].sessionId].turns)

\* C7: two runAgent calls in progress for different conversations never use
\* the same session.
C7_SessionIsolation ==
    \A r1, r2 \in 1..Len(runs) :
        (r1 # r2 /\ runs[r1].pc # "done" /\ runs[r2].pc # "done"
           /\ runs[r1].conv # runs[r2].conv)
            => runs[r1].sessionId # runs[r2].sessionId

\* C8: at most one manage_firewall_rule call is in flight per session.
C8_OneMutationInFlight ==
    \A sid \in 0..MaxClock :
        Cardinality({r \in 1..Len(runs) :
                        InFlight(r, ManageFirewall) /\ runs[r].sessionId = sid}) <= 1

\* C9: during a discovery run visitedProjects contains every root project
\* and never loses a member.
C9_VisitedGrows ==
    /\ [](Range(startProjects) \subseteq visitedProjects)
    /\ [][visitedProjects \subseteq visitedProjects']_vars

C9_Witness ==
    /\ scanPc = "done"
    /\ Len(startProjects) = 2
    /\ Cardinality(visitedProjects \ Range(startProjects)) = 2

\* C10: every entry of the relationship list has a root whose scan has
\* started as its source, and every edge has a target that is in
\* visitedProjects.
C10_EdgesWithinScope ==
    \A i \in 1..Len(projectGraph) :
        /\ projectGraph[i].source \in ScannedRoots
        /\ IsEdge(projectGraph[i]) => projectGraph[i].target \in visitedProjects

C10_Witness ==
    /\ scanIdx = 2 /\ scanPc = "instances"
    /\ \E i, j \in 1..Len(projectGraph) :
          /\ IsEdge(projectGraph[i]) /\ projectGraph[i].source = startProjects[1]
          /\ IsEdge(projectGraph[j]) /\ projectGraph[j].source = startProjects[2]
          /\ startProjects[1] # startProjects[2]

\* C11: no root project is ever the target of an edge of the relationship
\* list, whatever the roots and whatever the services answer.
C11_NoRootAsTarget ==
    \A i \in 1..Len(projectGraph) :
        IsEdge(projectGraph[i]) => projectGraph[i].target \notin Range(startProjects)

\* Both of two distinct roots have been scanned to the end and each has
\* recorded a link (the answers offered to each scan name the other root too).
C11_Witness ==
    /\ scanPc = "done"
    /\ Range(startProjects) = RootPool
    /\ \A p \in RootPool :
          \E i \in 1..Len(projectGraph) :
              IsEdge(projectGraph[i]) /\ projectGraph[i].source = p

\* C12: the deny-listed provider identity 'google-cloud-clients' is never an
\* edge target and never a member of visitedProjects, whichever detection
\* path extracted it.
C12_DenyListNeverDiscovered ==
    /\ DenyListed \notin visitedProjects
    /\ \A i \in 1..Len(projectGraph) :
          IsEdge(projectGraph[i]) => projectGraph[i].target # DenyListed

\* The links each detection path of one scan extracts when it is the only
\* path that runs (nothing but the roots visited before it), for the paths
\* the scan reaches.
ExtractedBy(roots, project, data) ==
    LET alone == FreshScope(roots)
        rs == data.resources.items
        reached == data.resources.ok /\ data.instances.ok
    IN  Range(XpnLink(alone, project, data.xpn).graph)
          \cup Range(UsableLinks(alone, project, data.usable.items).graph)
          \cup (IF data.resources.ok
                THEN Range(ForwardingRuleLinks(alone, project, rs).graph) ELSE {})
          \cup (IF reached
                THEN Range(InstanceLinks(alone, project, data.instances.items).graph)
                       \cup Range(PeeringLinks(alone, project, rs).graph)
                       \cup Range(InterconnectLinks(alone, project, rs).graph)
                ELSE {})

\* C13: when several detection paths of one scan extract the same
\* (source, target) pair with different reasons, the returned relationship
\* list holds an edge for each of the reasons.
C13_EveryReasonRecorded ==
    \A k \in 1..Len(callResults) :
        \A i \in 1..Len(callRoots) :
            \A e1, e2 \in ExtractedBy(callRoots, callRoots[i], inventory[callRoots[i]]) :
                (e1.target = e2.target /\ e1.reason # e2.reason)
                    => {e1, e2} \subseteq Range(callResults[k].relationships)

C15_DepthOneTerminates ==
    /\ [](scanPc # "done" => scanIdx \in 1..Len(startProjects))
    /\ [][startProjects' = startProjects /\ scanIdx' \in {scanIdx, scanIdx + 1}]_vars
    /\ <>(scanPc = "done" /\ scanIdx = Len(startProjects) + 1)

\* The call has returned after scanning two roots, the first of which
\* discovered a project that is no root and was not scanned.
C15_Witness ==
    /\ scanPc = "done"
    /\ scanIdx = 3
    /\ Len(startProjects) = 2
    /\ Len(projectGraph) >= 2
    /\ IsEdge(projectGraph[1])
    /\ projectGraph[1].source = startProjects[1]
    /\ projectGraph[1].target \notin Range(startProjects)
    /\ ~IsEdge(projectGraph[Len(projectGraph)])

\* C16: a failing query does not abort the scan of its project: the scan
\* leaves a project only after the last of its queries, the instance search,
\* has been issued.
C16_FailureDoesNotAbortScan ==
    [][scanIdx' # scanIdx => scanPc = "instances"]_vars

\* The queries that fail while one project with this data is scanned: the
\* instance search is reached only when the inventory search succeeded.
FailedQueries(data) ==
    (IF data.xpn.ok THEN 0 ELSE 1)
      + (IF data.usable.ok THEN 0 ELSE 1)
      + (IF ~data.resources.ok THEN 1 ELSE IF ~data.instances.ok THEN 1 ELSE 0)

\* the error entries a result holds for one project
ErrorEntriesFor(result, project) ==
    Cardinality({i \in 1..Len(result.relationships) :
                    /\ ~IsEdge(result.relationships[i])
                    /\ result.relationships[i].source = project})

\* C17: every query failure that occurs while a project is scanned is
\* recorded as an error entry for that project in the returned result.
C17_EveryFailureRecorded ==
    \A k \in 1..Len(callResults) :
        \A p \in Range(callRoots) :
            ErrorEntriesFor(callResults[k], p)
                >= Cardinality({i \in 1..Len(callRoots) : callRoots[i] = p})
                     * FailedQueries(inventory[p])

\* errors: errors.length > 0 ? errors : undefined
ReturnedErrors == IF flowReturn.errorsDefined THEN flowReturn.errors ELSE <<>>

\* C18: a failing flow-log query never ends the correlation: every distinct
\* project has been queried when queryVpcFlowLogs returns, and the returned
\* errors hold exactly one entry for each project whose query failed and
\* none for a project whose query succeeded.
C18_FailureIsolated ==
    flowPc = "returned" =>
        /\ Len(outcomes) = Len(uniqueProjects)
        /\ \A i \in 1..Len(uniqueProjects) :
              Cardinality({j \in 1..Len(ReturnedErrors) :
                              ReturnedErrors[j].projectId = uniqueProjects[i]})
                = (IF outcomes[i] THEN 0 ELSE 1)

\* The first of two projects failed, the second was still queried and its
\* rows were returned.
C18_Witness ==
    /\ flowPc = "returned"
    /\ Len(uniqueProjects) = 2
    /\ outcomes = <<FALSE, TRUE>>
    /\ flowReturn.recordCount > 0
    /\ Len(ReturnedErrors) = 1

\* C19: no returned record is tagged with a project that reported a query
\* error, and every returned record is tagged with the project whose query
\* produced it.
C19_TagIsOrigin ==
    flowPc = "returned" =>
        \A i \in 1..Len(flowReturn.records) :
            LET rec == flowReturn.records[i]
            IN  /\ rec.source_dataset_project = rec.table
                /\ \A j \in 1..Len(ReturnedErrors) :
                      ReturnedErrors[j].projectId # rec.source_dataset_project

\* One project failed, and a returned record of the other project logs a
\* resource that belongs to the failed one.
C19_Witness ==
    /\ flowPc = "returned"
    /\ Len(ReturnedErrors) = 1
    /\ \E i \in 1..Len(flowReturn.records) :
          /\ flowReturn.records[i].resource_project_id = ReturnedErrors[1].projectId
          /\ flowReturn.records[i].table # ReturnedErrors[1].projectId

C21_AtMostLimit ==
    flowPc = "returned" => flowReturn.recordCount <= LimitOf(flowParams)

\* the place of a project in the order the projects are queried in
QueryOrder(project) ==
    CHOOSE i \in 1..Len(uniqueProjects) : uniqueProjects[i] = project

\* a arrived before b: its project was queried earlier, or it stood earlier
\* in the rows of the same query
ArrivedBefore(a, b) ==
    \/ QueryOrder(a.table) < QueryOrder(b.table)
    \/ a.table = b.table /\ a.idx < b.idx

\* C22: returned records with equal timestamps stand in their arrival order:
\* project query order, then row order within a project.
C22_TiesKeepArrivalOrder ==
    flowPc = "returned" =>
        \A i, j \in 1..Len(flowReturn.records) :
            (i < j /\ TimeOf(flowReturn.records[i]) = TimeOf(flowReturn.records[j]))
                => ArrivedBefore(flowReturn.records[i], flowReturn.records[j])

\* Two projects answered with a row of the same timestamp, the project
\* queried second also with a newer row in front of it; both tied rows are
\* returned, the one of the project queried first ahead of the other.
C22_Witness ==
    /\ flowPc = "returned"
    /\ Len(uniqueProjects) = 2
    /\ \E i, j \in 1..Len(flowReturn.records) :
          /\ i < j
          /\ TimeOf(flowReturn.records[i]) = TimeOf(flowReturn.records[j])
          /\ flowReturn.records[i].table = uniqueProjects[1]
          /\ flowReturn.records[j].table = uniqueProjects[2]
          /\ flowReturn.records[j].idx = 2

\* every order of the elements of a sequence
Orders(seq) ==
    {[i \in 1..Len(seq) |-> seq[f[i]]] : f \in Permutations(1..Len(seq))}

\* the tagged rows the query of one project pushed, in row order
RECURSIVE RowsOf(_, _)
RowsOf(rs, project) ==
    IF rs = <<>> THEN <<>>
    ELSE (IF Head(rs).table = project THEN <<Head(rs)>> ELSE <<>>)
            \o RowsOf(Tail(rs), project)

\* results as the loop builds it when the same answers arrive in another
\* order of the projects
RECURSIVE ArrivingIn(_, _)
ArrivingIn(order, rs) ==
    IF order = <<>> THEN <<>>
    ELSE RowsOf(rs, Head(order)) \o ArrivingIn(Tail(order), rs)

\* C23: the records queryVpcFlowLogs returns are the same sequence for every
\* order in which the answers of the same projects arrive, also when rows of
\* different projects share a timestamp and the result is cut to limit.
C23_ArrivalOrderIrrelevant ==
    flowPc = "returned" =>
        \A order \in Orders(uniqueProjects) :
            FlowResult(ArrivingIn(order, results), errors,
                       LimitOf(flowParams)).records
              = flowReturn.records

\* the edges of a returned relationships list, as a set
EdgeSet(result) ==
    {result.relationships[i] :
        i \in {j \in 1..Len(result.relationships) : IsEdge(result.relationships[j])}}

\* C24: the scope detectAgentScope returns (the visited set and the set of
\* edges, edge order ignored) is the same for every order in which the roots
\* are scanned.
C24_ScanOrderIrrelevant ==
    \A k \in 1..Len(callResults) :
        \A order \in Orders(callRoots) :
            LET other == DetectAgentScope(order, Held(inventory, k))
            IN  /\ other.detectedScope = callResults[k].detectedScope
                /\ EdgeSet(other) = EdgeSet(callResults[k])

\* C25: runConnectivityTest never raises: a call whose test creation or
\* evaluation failed returns an error result that carries the message of
\* the failure and the remediation hint.
C25_FailureBecomesResult ==
    \A i \in 1..Len(probes) :
        /\ probes[i].pc # "raised"
        /\ (probes[i].pc = "returned" /\ probes[i].deleteCalls = 0)
              => /\ probes[i].returned.kind = "error"
                 /\ probes[i].returned.error = probes[i].failure
                 /\ probes[i].returned.error \in FailureMessages
                 /\ probes[i].returned.suggestion = Suggestion

\* One call was refused at creation because the name exists, another
\* failed while the evaluation was awaited; both returned.
C25_Witness ==
    \E i, j \in 1..Len(probes) :
        /\ probes[i].pc = "returned" /\ ~probes[i].created
        /\ probes[i].returned.kind = "error"
        /\ probes[i].returned.error = "ALREADY_EXISTS"
        /\ probes[j].pc = "returned" /\ probes[j].created
        /\ probes[j].deleteCalls = 0
        /\ probes[j].returned.kind = "error"

\* C26: when the evaluation succeeded and deleting the test resource
\* fails, the returned result still carries the verdict and the projects
\* read from the trace before the deletion.
C26_DeleteFailureKeepsVerdict ==
    \A i \in 1..Len(probes) :
        (probes[i].pc = "returned" /\ probes[i].deleteCalls = 1)
            => /\ probes[i].returned.kind = "ok"
               /\ probes[i].returned.result = probes[i].verdict
               /\ probes[i].returned.discoveredScope = probes[i].discovered

\* the invocation of manageFirewallRule has settled
FwSettled == fwPc \in {"returned", "raised"}

\* C27: an action other than create, update or delete yields a result of
\* status 'error', and no insert, patch or delete call is made.
C27_UnknownActionFails ==
    (FwSettled /\ fwParams.action \notin {"create", "update", "delete"})
        => /\ fwPc = "returned"
           /\ fwReturn.status = "error"
           /\ apiCalls = <<>>

\* C28: no failure escapes manageFirewallRule: whatever the arguments, and
\* whether the mutation call or the completion wait fails, the call returns
\* a result of status 'error' that carries the message of the failure.
C28_NoFailureEscapes ==
    /\ fwPc # "raised"
    /\ (fwPc = "returned" /\ thrown # <<>>)
          => /\ fwReturn.status = "error"
             /\ fwReturn.message
                  = <<"Failed to", fwParams.action, "firewall rule:">> \o thrown

\* C29: when the mutation call resolved with an operation that has
\* promise(), a result of status 'success' is returned only after that
\* promise resolved, and a failed wait gives a result of status 'error'.
C29_SuccessAfterCompletion ==
    (fwPc = "returned" /\ operation = "lro")
        => /\ fwReturn.status = "success" <=> observed
           /\ fwReturn.status = "error" <=> thrown \in FwFailures

\* The mutation call resolved with such an operation, its completion was
\* awaited and observed, and the call returned success.
C29_Witness ==
    /\ fwPc = "returned"
    /\ operation = "lro"
    /\ observed
    /\ fwReturn.status = "success"
    /\ Len(apiCalls) = 1

\* the results returned after an observed completion
ObservedResults == {FwSuccess(params) : params \in FwParamsInputs}

\* C30: when the operation has no promise(), the call returns success with
\* a result that differs from every result returned after an observed
\* completion: its message does not say the mutation was performed.
C30_UnverifiedIsDistinguishable ==
    (fwPc = "returned" /\ operation = "plain")
        => /\ fwReturn.status = "success"
           /\ fwReturn \notin ObservedResults

FirstIndex(list, project) ==
    CHOOSE i \in 1..Len(list) :
        list[i] = project /\ \A j \in 1..(i - 1) : list[j] # project

\* C32: queryVpcFlowLogs issues exactly one query per distinct project of
\* the input list, in the order of the first occurrences; a value that is
\* not an array is a list of one.
C32_OneQueryPerDistinctProject ==
    LET list == ProjectList(flowParams.projects)
    IN  /\ \A i, j \in 1..Len(queried) :
              i < j => /\ queried[i] # queried[j]
                       /\ FirstIndex(list, queried[i]) < FirstIndex(list, queried[j])
        /\ Range(queried) \subseteq Range(list)
        /\ flowPc = "returned" => Range(queried) = Range(list)
        /\ ~flowParams.projects.isArray => queried = <<flowParams.projects.item>>

\* The list names a project again after another one; each was queried
\* once, in the order of the first occurrences.
C32_Witness ==
    /\ flowPc = "returned"
    /\ flowParams.projects.isArray
    /\ flowParams.projects.items = <<"pb", "pa", "pb">>
    /\ queried = <<"pb", "pa">>
    /\ Len(outcomes) = 2

\* this step is a failure that ends the scan of the current root
ScanFails ==
    /\ Len(projectGraph') = Len(projectGraph) + 1
    /\ ~IsEdge(projectGraph'[Len(projectGraph')])

\* C33: a failure that ends the scan of one root leaves every project and
\* every entry accumulated so far in place, as every later step does, and
\* the scan of the following root starts.
C33_FailureKeepsAccumulated ==
    [][/\ visitedProjects \subseteq visitedProjects'
       /\ Len(projectGraph') >= Len(projectGraph)
       /\ SubSeq(projectGraph', 1, Len(projectGraph)) = projectGraph
       /\ ScanFails =>
            /\ visitedProjects' = visitedProjects
            /\ scanIdx' = scanIdx + 1
            /\ scanIdx < Len(startProjects) => scanPc' = "xpn"]_vars

\* The scan of the first root found a project and then failed; the scan of
\* the second root ran to its end and found another one; the result holds
\* the edge, the error entry and the later edge.
C33_Witness ==
    /\ scanPc = "done"
    /\ Len(startProjects) = 2
    /\ startProjects[1] # startProjects[2]
    /\ Len(projectGraph) = 3
    /\ IsEdge(projectGraph[1]) /\ projectGraph[1].source = startProjects[1]
    /\ ~IsEdge(projectGraph[2]) /\ projectGraph[2].source = startProjects[1]
    /\ IsEdge(projectGraph[3]) /\ projectGraph[3].source = startProjects[2]
    /\ {projectGraph[1].target, projectGraph[3].target} \subseteq visitedProjects

\* the places of the edges of a relationships list
EdgePlaces(result) ==
    {i \in 1..Len(result.relationships) : IsEdge(result.relationships[i])}

\* C34: in the relationships of one detectAgentScope run every project is
\* the target of at most one edge, so no (source, target, reason) triple
\* occurs twice.
C34_OneEdgePerTarget ==
    \A k \in 1..Len(callResults) :
        \A i, j \in EdgePlaces(callResults[k]) :
            i # j => callResults[k].relationships[i].target
                       # callResults[k].relationships[j].target

\* Both roots name pc as their Shared VPC host and the first root also
\* reaches it over a usable subnet; the result holds one edge to pc.
C34_Witness ==
    /\ Len(callResults) >= 1
    /\ callRoots = <<"pa", "pb">>
    /\ inventory["pa"].xpn = [ok |-> TRUE, name |-> "pc"]
    /\ inventory["pa"].usable.items # <<>>
    /\ inventory["pb"].xpn = [ok |-> TRUE, name |-> "pc"]
    /\ Cardinality({i \in EdgePlaces(callResults[1]) :
                       callResults[1].relationships[i].target = "pc"}) = 1

\* C35: a manageFirewallRule call that returns success has issued exactly
\* one mutating call, insert for create, patch for update and delete for
\* delete; a call that fails has issued at most one.
C35_OneMatchingMutation ==
    FwSettled =>
        /\ Len(apiCalls) <= 1
        /\ (fwPc = "returned" /\ fwReturn.status = "success") =>
              /\ Len(apiCalls) = 1
              /\ apiCalls[1].project = fwParams.projectId
              /\ <<fwParams.action, apiCalls[1].method>>
                    \in {<<"create", "insert">>, <<"update", "patch">>,
                         <<"delete", "delete">>}

\* An update returned success after one patch call, and no other call.
C35_Witness ==
    /\ fwPc = "returned"
    /\ fwReturn.status = "success"
    /\ fwParams.action = "update"
    /\ Len(apiCalls) = 1
    /\ apiCalls[1].method = "patch"
    /\ apiCalls[1].firewall = ruleName

\* C36: two runConnectivityTest invocations on the same project that both
\* created their test resource created them under distinct identifiers.
C36_DistinctTestIds ==
    \A i, j \in 1..Len(probes) :
        (i # j /\ probes[i].projectId = probes[j].projectId
           /\ probes[i].created /\ probes[j].created)
            => probes[i].testId # probes[j].testId

\* the timestamps of the matching rows of all tables read
RECURSIVE UnionTimes(_)
UnionTimes(ts) ==
    IF ts = <<>> THEN <<>>
    ELSE [i \in 1..Len(Head(ts)) |-> TimeOf(Head(ts)[i])] \o UnionTimes(Tail(ts))

\* how many rows of the union are more recent than t, and how many are not
\* older
MoreRecent(t) ==
    Cardinality({i \in 1..Len(UnionTimes(tables)) : UnionTimes(tables)[i] > t})
NotOlder(t) ==
    Cardinality({i \in 1..Len(UnionTimes(tables)) : UnionTimes(tables)[i] >= t})

====
